---- MODULE Spec2Model ----
(***************************************************************************)
(* Document posting and inventory ledger engine (documentsApi.ts).         *)
(*                                                                         *)
(* The store holds four tables: documents, document_lines,                 *)
(* inventory_balances and inventory_ledger.  Every client runs one async   *)
(* data-layer call at a time; each await of a call is one atomic step      *)
(* against the store, so the steps of different clients interleave.  Any   *)
(* store request may fail (a storage error).                               *)
(***************************************************************************)
EXTENDS Integers, Sequences, FiniteSets, TLC

\* ------------------------------------------------------------------ bounds
MaxLines == 2
MaxQty == 1
MaxFaults == 1
MaxClock == 1

Products == {"A", "B"}
Warehouses == {"W1"}
Clients == {"c1", "c2"}
\* ids of the documents created here
DocIds == {1}
\* id of the receipt that brought in the opening stock, when there is one
OpeningId == 0

\* ------------------------------------------------------------------- types
DocType == {"receipt", "shipment", "adjustment", "count"}
DocStatus == {"draft", "posted"}

\* Quantities the document form lets through for a line of a document of type t.
QtyRange(t) == IF t = "adjustment" THEN (0 - MaxQty)..MaxQty ELSE 0..MaxQty

DocumentLine(t) == [product_id : Products, qty : QtyRange(t)]

LineLists(t) ==
  UNION {[1..n -> DocumentLine(t)] : n \in 0..MaxLines}

\* Results of a call.
Ok == "ok"
ErrNotFound == "Document not found"
ErrAlreadyPosted == "Already posted"
ErrNoLines == "Cannot post document with no lines"
ErrInsufficient == "Insufficient stock"
ErrLedger == "Failed to create ledger entries"
ErrBalance == "Balance update failed"
ErrStatus == "status update failed"
ErrCreate == "create failed"
ErrMissingSkus == "Products not found for SKUs"
ErrDelete == "delete failed"
ErrUpdate == "update failed"

ValidationErrors == {ErrAlreadyPosted, ErrNoLines, ErrInsufficient}

VARIABLES
  products,            \* table products: the ids of the existing products
  documents,           \* table documents: id -> [type, status, warehouse_id]
  document_lines,      \* table document_lines: document id -> lines
  inventory_balances,  \* table inventory_balances: <<product, warehouse>> -> on_hand
  inventory_ledger,    \* table inventory_ledger: sequence of entries
  created_at,          \* column created_at of inventory_ledger, entry by entry
  updated_at,          \* column updated_at of inventory_balances
  posted_at,           \* column posted_at of documents, where it is set
  doc_seq,             \* number of ids the store has given to new documents
  clock,               \* the time new Date() gives
  timestamp,           \* per client: the timestamp of its posting
  pc,                  \* per client: the await its call is suspended at
  docId,               \* per client: the document id of its call
  doc,                 \* per client: the header postDocument fetched
  lines,               \* per client: the lines fetched (or to be inserted)
  balanceMap,          \* per client: the balances postDocument read
  upsertIdx,           \* per client: index of the next balance update
  ret,                 \* per client: result of the finished call
  writes,              \* per client: store writes its current call has made
  faults               \* storage errors injected so far

store == <<products, documents, document_lines, inventory_balances, inventory_ledger,
          created_at, updated_at, posted_at, doc_seq>>
vars == <<created_at, updated_at, posted_at, doc_seq, clock, timestamp,
          products, documents, document_lines, inventory_balances, inventory_ledger,
          pc, docId, doc, lines, balanceMap, upsertIdx, ret, writes, faults>>

NoHeader == [type |-> "none", status |-> "none", warehouse_id |-> "none"]
EmptyMap == [p \in {} |-> 0]

\* ------------------------------------------------------- pure computations

\* balanceMap.get(line.product_id) || 0
CurrentQty(bm, p) == IF p \in DOMAIN bm THEN bm[p] ELSE 0

\* on_hand stored for a pair, an absent row counting as 0
OnHand(p, w) ==
  IF <<p, w>> \in DOMAIN inventory_balances THEN inventory_balances[<<p, w>>] ELSE 0

\* a shipment that adds its quantity
Delta_shipmentAdds(t, qty, currentQty) ==
  CASE t = "receipt" -> qty
    [] t = "shipment" -> qty
    [] t = "adjustment" -> qty
    [] t = "count" -> qty - currentQty
    [] OTHER -> 0

\* a count taken as a movement of its quantity
Delta_countAsMovement(t, qty, currentQty) ==
  CASE t = "receipt" -> qty
    [] t = "shipment" -> 0 - qty
    [] t = "adjustment" -> qty
    [] t = "count" -> qty
    [] OTHER -> 0

\* a receipt that takes its quantity out
Delta_receiptSubtracts(t, qty, currentQty) ==
  CASE t = "receipt" -> 0 - qty
    [] t = "shipment" -> 0 - qty
    [] t = "adjustment" -> qty
    [] t = "count" -> qty - currentQty
    [] OTHER -> 0

\* the delta of one line
Delta(t, qty, currentQty) ==
  CASE t = "receipt" -> qty
    [] t = "shipment" -> 0 - qty
    [] t = "adjustment" -> qty
    [] t = "count" -> qty - currentQty
    [] OTHER -> 0

\* a guard that never rejects
InsufficientStock_never(t, qty, currentQty) == FALSE

\* a guard that also refuses an adjustment taking out more than there is
InsufficientStock_adjustmentToo(t, qty, currentQty) ==
  \/ t = "shipment" /\ currentQty < qty
  \/ t = "adjustment" /\ currentQty + qty < 0

\* the stock-sufficiency guard of a shipment line
InsufficientStock(t, qty, currentQty) == t = "shipment" /\ currentQty < qty

\* a status check that never rejects
AlreadyPosted_never(hdr) == FALSE

\* if (doc.status === 'posted') return { error: "Already posted" }
AlreadyPosted(hdr) == hdr.status = "posted"

\* a posting that takes a document without lines
NoLines_never(ls) == FALSE

\* if (lines.length === 0) return { error: "Cannot post document with no lines" }
NoLines(ls) == Len(ls) = 0

\* if (!line.product_id) continue
PostableLines(ls) == SelectSeq(ls, LAMBDA l : l.product_id \in Products)

\* a loop that validates its first line only
AnyInsufficient_firstLineOnly(hdr, ls, bm) ==
  /\ Len(PostableLines(ls)) > 0
  /\ InsufficientStock(hdr.type, PostableLines(ls)[1].qty,
                       CurrentQty(bm, PostableLines(ls)[1].product_id))

\* the loop returns at the first line that fails its validation
AnyInsufficient(hdr, ls, bm) ==
  \E i \in 1..Len(PostableLines(ls)) :
    InsufficientStock(hdr.type, PostableLines(ls)[i].qty,
                      CurrentQty(bm, PostableLines(ls)[i].product_id))

\* an insert that replaces what the table held
AppendLedger_replaces(entries) == entries

\* from('inventory_ledger').insert(dbLedgerEntries)
AppendLedger(entries) == inventory_ledger \o entries

LedgerEntries(id, hdr, ls, bm) ==
  [i \in 1..Len(PostableLines(ls)) |->
    [product_id |-> PostableLines(ls)[i].product_id,
     warehouse_id |-> hdr.warehouse_id,
     doc_id |-> id,
     doc_type |-> hdr.type,
     delta |-> Delta(hdr.type, PostableLines(ls)[i].qty,
                     CurrentQty(bm, PostableLines(ls)[i].product_id))]]

BalanceUpdates(hdr, ls, bm) ==
  [i \in 1..Len(PostableLines(ls)) |->
    [product_id |-> PostableLines(ls)[i].product_id,
     warehouse_id |-> hdr.warehouse_id,
     on_hand |-> CurrentQty(bm, PostableLines(ls)[i].product_id)
                 + Delta(hdr.type, PostableLines(ls)[i].qty,
                         CurrentQty(bm, PostableLines(ls)[i].product_id))]]

\* select product_id, on_hand where warehouse_id = w and product_id in ids
SelectBalances(w, ids) ==
  [p \in {q \in ids : <<q, w>> \in DOMAIN inventory_balances} |->
    inventory_balances[<<p, w>>]]

\* an upsert that leaves a record there is as it is (ignoreDuplicates)
Upsert_ignoresDuplicates(u) ==
  [k \in DOMAIN inventory_balances \cup {<<u.product_id, u.warehouse_id>>} |->
    IF k \in DOMAIN inventory_balances THEN inventory_balances[k] ELSE u.on_hand]

\* an update of the balances that selects by warehouse only
Upsert_wholeWarehouse(u) ==
  [k \in DOMAIN inventory_balances \cup {<<u.product_id, u.warehouse_id>>} |->
    IF k[2] = u.warehouse_id THEN u.on_hand ELSE inventory_balances[k]]

\* upsert on conflict (product_id, warehouse_id)
Upsert(u) ==
  [k \in DOMAIN inventory_balances \cup {<<u.product_id, u.warehouse_id>>} |->
    IF k = <<u.product_id, u.warehouse_id>> THEN u.on_hand ELSE inventory_balances[k]]

\* a status update whose clause matches no row
StatusUpdateApplies_never(id) == FALSE

\* the clause of the status update: which rows the update may touch
StatusUpdateApplies(id) == id \in DOMAIN documents

LineProducts(ls) == {ls[i].product_id : i \in 1..Len(ls)}

\* ------------------------------------------------------------ bookkeeping

Finish(c, r) ==
  /\ pc' = [pc EXCEPT ![c] = "done"]
  /\ ret' = [ret EXCEPT ![c] = r]

Fault == faults < MaxFaults /\ faults' = faults + 1
NoFault == faults' = faults

\* The lines of the opening receipt for stock a of "A" and b of "B".
OpeningLines(a, b) ==
  SelectSeq(<<[product_id |-> "A", qty |-> a], [product_id |-> "B", qty |-> b]>>,
            LAMBDA l : l.qty > 0)

OpeningHeader(w) == [type |-> "receipt", status |-> "posted", warehouse_id |-> w]

\* The store after createDocument and postDocument of one receipt with lines ls
\* into warehouse w ran alone on an empty store (nothing at all when ls is empty).
StoreAfterOpening(w, ls) ==
  LET ids == IF Len(ls) = 0 THEN {} ELSE {OpeningId} IN
  /\ products = Products
  /\ documents = [d \in ids |-> OpeningHeader(w)]
  /\ document_lines = [d \in ids |-> ls]
  /\ inventory_balances =
       [k \in {<<ls[i].product_id, w>> : i \in 1..Len(ls)} |->
         BalanceUpdates(OpeningHeader(w), ls, EmptyMap)[
           CHOOSE i \in 1..Len(ls) : ls[i].product_id = k[1]].on_hand]
  /\ inventory_ledger = LedgerEntries(OpeningId, OpeningHeader(w), ls, EmptyMap)
  /\ created_at = [i \in 1..Len(ls) |-> 0]
  /\ updated_at = [k \in {<<ls[i].product_id, w>> : i \in 1..Len(ls)} |-> 0]
  /\ posted_at = [d \in ids |-> 0]
  /\ doc_seq = 0

Idle ==
  /\ pc = [c \in Clients |-> "idle"]
  /\ docId = [c \in Clients |-> 0]
  /\ doc = [c \in Clients |-> NoHeader]
  /\ lines = [c \in Clients |-> <<>>]
  /\ balanceMap = [c \in Clients |-> EmptyMap]
  /\ upsertIdx = [c \in Clients |-> 0]
  /\ ret = [c \in Clients |-> ""]
  /\ writes = [c \in Clients |-> 0]
  /\ faults = 0
  /\ timestamp = [c \in Clients |-> 0]
  /\ clock = 0

Init ==
  /\ \E w \in Warehouses : \E a \in 0..MaxQty, b \in 0..MaxQty :
       StoreAfterOpening(w, OpeningLines(a, b))
  /\ Idle

\* The empty store: no document, no balance, no ledger entry.
InitEmpty ==
  /\ StoreAfterOpening(CHOOSE w \in Warehouses : TRUE, <<>>)
  /\ Idle

\* ---------------------------------------------------------- createDocument

\* the id the store gives the next document
NextId == doc_seq + 1

\* const missingSkus = skus.filter(sku => !productMap.has(sku))
MissingSkus(ls) == LineProducts(ls) \ products

\* Resolve the SKUs; when all are found, insert the header as a draft.
CreateHeader(c) ==
  /\ pc[c] = "idle"
  /\ NextId \in DocIds
  /\ \E t \in DocType, w \in Warehouses : \E ls \in LineLists(t) :
       LET id == NextId IN
       IF MissingSkus(ls) # {}
       THEN /\ Finish(c, ErrMissingSkus)
            /\ writes' = [writes EXCEPT ![c] = 0]
            /\ UNCHANGED <<documents, document_lines, doc_seq, docId, lines>>
       ELSE /\ documents' = [d \in DOMAIN documents \cup {id} |->
                 IF d = id THEN [type |-> t, status |-> "draft", warehouse_id |-> w]
                 ELSE documents[d]]
            /\ document_lines' = [d \in DOMAIN documents \cup {id} |->
                 IF d = id THEN <<>> ELSE document_lines[d]]
            /\ doc_seq' = id
            /\ docId' = [docId EXCEPT ![c] = id]
            /\ lines' = [lines EXCEPT ![c] = ls]
            /\ pc' = [pc EXCEPT ![c] = "create_lines"]
            /\ writes' = [writes EXCEPT ![c] = 1]
            /\ UNCHANGED ret
  /\ NoFault
  /\ UNCHANGED <<products, inventory_balances, inventory_ledger,
                 created_at, updated_at, posted_at,
                 doc, balanceMap, timestamp, clock, upsertIdx>>

\* The products select or the header insert fails: nothing is created.
CreateHeaderFails(c) ==
  /\ pc[c] = "idle"
  /\ NextId \in DocIds
  /\ Fault
  /\ Finish(c, ErrCreate)
  /\ writes' = [writes EXCEPT ![c] = 0]
  /\ UNCHANGED <<store, docId, doc, lines, balanceMap, timestamp, clock, upsertIdx>>

\* Insert the lines of the new document.
CreateLines(c) ==
  /\ pc[c] = "create_lines"
  /\ document_lines' = [document_lines EXCEPT ![docId[c]] = lines[c]]
  /\ writes' = [writes EXCEPT ![c] = writes[c] + 1]
  /\ NoFault
  /\ Finish(c, Ok)
  /\ UNCHANGED <<products, documents, inventory_balances, inventory_ledger,
                 created_at, updated_at, posted_at, doc_seq,
                 docId, doc, lines, balanceMap, timestamp, clock, upsertIdx>>

\* The lines insert fails: the header stays, without lines.
CreateLinesFails(c) ==
  /\ pc[c] = "create_lines"
  /\ Fault
  /\ Finish(c, ErrCreate)
  /\ UNCHANGED <<store, docId, doc, lines, balanceMap, timestamp, clock, upsertIdx, writes>>

\* ------------------------------------------------------------ postDocument

\* getDocument: select the header.
PostGetDocument(c) ==
  /\ pc[c] = "idle"
  /\ \E id \in DOMAIN documents :
       /\ docId' = [docId EXCEPT ![c] = id]
       /\ doc' = [doc EXCEPT ![c] = documents[id]]
  /\ pc' = [pc EXCEPT ![c] = "get_lines"]
  /\ writes' = [writes EXCEPT ![c] = 0]
  /\ NoFault
  /\ UNCHANGED <<store, lines, balanceMap, timestamp, clock, upsertIdx, ret>>

\* getDocument: the header select fails, postDocument throws.
PostGetDocumentFails(c) ==
  /\ pc[c] = "idle"
  /\ \E id \in DOMAIN documents : docId' = [docId EXCEPT ![c] = id]
  /\ Fault
  /\ Finish(c, ErrNotFound)
  /\ writes' = [writes EXCEPT ![c] = 0]
  /\ UNCHANGED <<store, doc, lines, balanceMap, timestamp, clock, upsertIdx>>

\* getDocument: select the lines; then the checks of postDocument that need
\* no further store request.
PostGetLines(c) ==
  /\ pc[c] = "get_lines"
  /\ NoFault
  /\ LET ls == IF docId[c] \in DOMAIN document_lines
               THEN document_lines[docId[c]] ELSE <<>> IN
     /\ lines' = [lines EXCEPT ![c] = ls]
     /\ IF AlreadyPosted(doc[c]) THEN Finish(c, ErrAlreadyPosted) /\ UNCHANGED timestamp
        ELSE IF NoLines(ls) THEN Finish(c, ErrNoLines) /\ UNCHANGED timestamp
        ELSE /\ pc' = [pc EXCEPT ![c] = "read_balances"]
             /\ timestamp' = [timestamp EXCEPT ![c] = clock]
             /\ UNCHANGED ret
  /\ UNCHANGED <<store, docId, doc, balanceMap, clock, upsertIdx, writes>>

\* getDocument: the lines select fails, postDocument throws.
PostGetLinesFails(c) ==
  /\ pc[c] = "get_lines"
  /\ Fault
  /\ Finish(c, ErrNotFound)
  /\ UNCHANGED <<store, docId, doc, lines, balanceMap, timestamp, clock, upsertIdx, writes>>

\* What follows the balances select: the loop over the lines, which returns at
\* the first insufficient shipment line, and the choice of the next request.
AfterBalances(c, bm) ==
  /\ balanceMap' = [balanceMap EXCEPT ![c] = bm]
  /\ IF AnyInsufficient(doc[c], lines[c], bm)
     THEN Finish(c, ErrInsufficient) /\ UNCHANGED upsertIdx
     ELSE /\ UNCHANGED ret
          /\ upsertIdx' = [upsertIdx EXCEPT ![c] = 1]
          /\ pc' = [pc EXCEPT ![c] =
               IF Len(PostableLines(lines[c])) > 0 THEN "insert_ledger"
               ELSE "update_status"]

\* Fetch current balances.
PostReadBalances(c) ==
  /\ pc[c] = "read_balances"
  /\ NoFault
  /\ AfterBalances(c, SelectBalances(doc[c].warehouse_id, LineProducts(lines[c])))
  /\ UNCHANGED <<store, docId, doc, lines, writes, timestamp, clock>>

\* The balances select fails; its error is not looked at and the data is null.
PostReadBalancesFails(c) ==
  /\ pc[c] = "read_balances"
  /\ Fault
  /\ AfterBalances(c, EmptyMap)
  /\ UNCHANGED <<store, docId, doc, lines, writes, timestamp, clock>>

\* 3. Insert Ledger
PostInsertLedger(c) ==
  /\ pc[c] = "insert_ledger"
  /\ NoFault
  /\ inventory_ledger' =
       AppendLedger(LedgerEntries(docId[c], doc[c], lines[c], balanceMap[c]))
  /\ created_at' =
       created_at \o [i \in 1..Len(PostableLines(lines[c])) |-> timestamp[c]]
  /\ writes' = [writes EXCEPT ![c] = writes[c] + 1]
  /\ pc' = [pc EXCEPT ![c] = "upsert_balance"]
  /\ UNCHANGED <<products, documents, document_lines, inventory_balances,
                 updated_at, posted_at, doc_seq,
                 docId, doc, lines, balanceMap, timestamp, clock, upsertIdx, ret>>

PostInsertLedgerFails(c) ==
  /\ pc[c] = "insert_ledger"
  /\ Fault
  /\ Finish(c, ErrLedger)
  /\ UNCHANGED <<store, docId, doc, lines, balanceMap, timestamp, clock, upsertIdx, writes>>

\* 4. Update Balances, one upsert per line
PostUpsertBalance(c) ==
  /\ pc[c] = "upsert_balance"
  /\ NoFault
  /\ LET us == BalanceUpdates(doc[c], lines[c], balanceMap[c]) IN
     /\ inventory_balances' = Upsert(us[upsertIdx[c]])
     /\ updated_at' =
          [k \in DOMAIN updated_at
                   \cup {<<us[upsertIdx[c]].product_id, us[upsertIdx[c]].warehouse_id>>} |->
            IF k = <<us[upsertIdx[c]].product_id, us[upsertIdx[c]].warehouse_id>>
            THEN timestamp[c] ELSE updated_at[k]]
     /\ upsertIdx' = [upsertIdx EXCEPT ![c] = upsertIdx[c] + 1]
     /\ pc' = [pc EXCEPT ![c] =
          IF upsertIdx[c] = Len(us) THEN "update_status" ELSE "upsert_balance"]
  /\ writes' = [writes EXCEPT ![c] = writes[c] + 1]
  /\ UNCHANGED <<products, documents, document_lines, inventory_ledger,
                 created_at, posted_at, doc_seq,
                 docId, doc, lines, balanceMap, timestamp, clock, ret>>

PostUpsertBalanceFails(c) ==
  /\ pc[c] = "upsert_balance"
  /\ Fault
  /\ Finish(c, ErrBalance)
  /\ UNCHANGED <<store, docId, doc, lines, balanceMap, timestamp, clock, upsertIdx, writes>>

\* 5. Update Doc Status
PostUpdateStatus(c) ==
  /\ pc[c] = "update_status"
  /\ NoFault
  /\ IF StatusUpdateApplies(docId[c])
     THEN /\ documents' = [documents EXCEPT ![docId[c]].status = "posted"]
          /\ posted_at' = [d \in DOMAIN posted_at \cup {docId[c]} |->
               IF d = docId[c] THEN timestamp[c] ELSE posted_at[d]]
          /\ writes' = [writes EXCEPT ![c] = writes[c] + 1]
          /\ Finish(c, Ok)
     ELSE /\ UNCHANGED <<documents, posted_at, writes>>
          /\ Finish(c, ErrStatus)
  /\ UNCHANGED <<products, document_lines, inventory_balances, inventory_ledger,
                 created_at, updated_at, doc_seq,
                 docId, doc, lines, balanceMap, timestamp, clock, upsertIdx>>

PostUpdateStatusFails(c) ==
  /\ pc[c] = "update_status"
  /\ Fault
  /\ Finish(c, ErrStatus)
  /\ UNCHANGED <<store, docId, doc, lines, balanceMap, timestamp, clock, upsertIdx, writes>>

\* The caller takes the result; the client is free for its next call.
Return(c) ==
  /\ pc[c] = "done"
  /\ pc' = [pc EXCEPT ![c] = "idle"]
  /\ docId' = [docId EXCEPT ![c] = 0]
  /\ doc' = [doc EXCEPT ![c] = NoHeader]
  /\ lines' = [lines EXCEPT ![c] = <<>>]
  /\ balanceMap' = [balanceMap EXCEPT ![c] = EmptyMap]
  /\ upsertIdx' = [upsertIdx EXCEPT ![c] = 0]
  /\ ret' = [ret EXCEPT ![c] = ""]
  /\ writes' = [writes EXCEPT ![c] = 0]
  /\ timestamp' = [timestamp EXCEPT ![c] = 0]
  /\ UNCHANGED <<store, faults, clock>>

CreateStep(c) ==
  \/ CreateHeader(c)
  \/ CreateHeaderFails(c)
  \/ CreateLines(c)
  \/ CreateLinesFails(c)

PostStep(c) ==
  \/ PostGetDocument(c)
  \/ PostGetDocumentFails(c)
  \/ PostGetLines(c)
  \/ PostGetLinesFails(c)
  \/ PostReadBalances(c)
  \/ PostReadBalancesFails(c)
  \/ PostInsertLedger(c)
  \/ PostInsertLedgerFails(c)
  \/ PostUpsertBalance(c)
  \/ PostUpsertBalanceFails(c)
  \/ PostUpdateStatus(c)
  \/ PostUpdateStatusFails(c)
  \/ Return(c)

\* Any client takes the next step of its call, or starts a call.
Next == \E c \in Clients : CreateStep(c) \/ PostStep(c)

\* One client alone makes its calls one after the other.
NextSolo == CreateStep("c1") \/ PostStep("c1")

Spec == Init /\ [][Next]_vars

\* The calls of a single client, one after the other.
SpecSolo == Init /\ [][NextSolo]_vars

\* The same program started on the empty store.
SpecEmpty == InitEmpty /\ [][Next]_vars

\* ------------------------------------------- DocumentForm, updateDocument
\* the warehouses the form offers for the header of a saved document
FormWarehouses == {"W1", "W2"}

\* a form that sends the status it loaded along with the header
FormUpdates_resetsStatus(w) == [warehouse_id |-> w, status |-> "draft"]

\* what onSubmit hands to updateDocument: the header fields of the form
FormUpdates(w) == [warehouse_id |-> w]

\* update(safeUpdates): the row with the fields of the updates replaced
ApplyUpdates(hdr, updates) ==
  [f \in DOMAIN hdr |-> IF f \in DOMAIN updates THEN updates[f] ELSE hdr[f]]

\* const isPosted = doc?.status === 'posted', of the document the form loaded
IsPosted(hdr) == hdr.status = "posted"

\* loadDoc, getDocument: select the header of the document to show.
FormGetDocument(c) ==
  /\ pc[c] = "idle"
  /\ \E id \in DOMAIN documents :
       /\ docId' = [docId EXCEPT ![c] = id]
       /\ doc' = [doc EXCEPT ![c] = documents[id]]
  /\ pc' = [pc EXCEPT ![c] = "form_lines"]
  /\ writes' = [writes EXCEPT ![c] = 0]
  /\ NoFault
  /\ UNCHANGED <<store, lines, balanceMap, timestamp, clock, upsertIdx, ret>>

\* loadDoc, getDocument: select the lines; the form shows the document.
FormGetLines(c) ==
  /\ pc[c] = "form_lines"
  /\ NoFault
  /\ lines' = [lines EXCEPT ![c] =
       IF docId[c] \in DOMAIN document_lines THEN document_lines[docId[c]] ELSE <<>>]
  /\ pc' = [pc EXCEPT ![c] = "form"]
  /\ UNCHANGED <<store, docId, doc, balanceMap, timestamp, clock, upsertIdx, ret, writes>>

\* loadDoc: a select fails, "Document not found", the form is left.
FormLoadFails(c) ==
  /\ pc[c] = "form_lines"
  /\ Fault
  /\ Finish(c, ErrNotFound)
  /\ UNCHANGED <<store, docId, doc, lines, balanceMap, timestamp, clock, upsertIdx, writes>>

\* onSubmit of a saved document: the save bar is there unless the document the
\* form loaded was posted; updateDocument writes the header fields of the form.
\* The form stays open, with the document it loaded.
FormSave(c) ==
  /\ pc[c] = "form"
  /\ ~IsPosted(doc[c])
  /\ NoFault
  /\ \E w \in FormWarehouses :
       IF docId[c] \in DOMAIN documents
       THEN /\ documents' = [documents EXCEPT ![docId[c]] =
                 ApplyUpdates(@, FormUpdates(w))]
            /\ writes' = [writes EXCEPT ![c] = 1]
            /\ ret' = [ret EXCEPT ![c] = Ok]
       ELSE /\ UNCHANGED documents
            /\ writes' = [writes EXCEPT ![c] = 0]
            /\ ret' = [ret EXCEPT ![c] = ErrUpdate]
  /\ UNCHANGED <<products, document_lines, inventory_balances, inventory_ledger,
                 created_at, updated_at, posted_at, doc_seq,
                 pc, docId, doc, lines, balanceMap, timestamp, clock, upsertIdx>>

\* updateDocument answers with an error: nothing is written.
FormSaveFails(c) ==
  /\ pc[c] = "form"
  /\ ~IsPosted(doc[c])
  /\ Fault
  /\ ret' = [ret EXCEPT ![c] = ErrUpdate]
  /\ writes' = [writes EXCEPT ![c] = 0]
  /\ UNCHANGED <<store, pc, docId, doc, lines, balanceMap, timestamp, clock, upsertIdx>>

\* The user leaves the form.
FormLeave(c) ==
  /\ pc[c] = "form"
  /\ pc' = [pc EXCEPT ![c] = "done"]
  /\ UNCHANGED <<store, docId, doc, lines, balanceMap, timestamp, clock, upsertIdx, ret, writes, faults>>

FormStep(c) ==
  \/ FormGetDocument(c)
  \/ FormGetLines(c)
  \/ FormLoadFails(c)
  \/ FormSave(c)
  \/ FormSaveFails(c)
  \/ FormLeave(c)

\* One client creates documents, opens them in the form and saves them, while
\* the other posts them.
NextForm == CreateStep("c1") \/ FormStep("c1") \/ Return("c1") \/ PostStep("c2")

SpecForm == Init /\ [][NextForm]_vars

\* ----------------------------------------------------------- deleteProduct
\* delete from products where id = p; the rows of the other tables that name
\* the product are left as they are.
DeleteProduct(c) ==
  /\ pc[c] = "idle"
  /\ \E p \in products : products' = products \ {p}
  /\ writes' = [writes EXCEPT ![c] = 1]
  /\ NoFault
  /\ Finish(c, Ok)
  /\ UNCHANGED <<documents, document_lines, inventory_balances, inventory_ledger,
                 created_at, updated_at, posted_at, doc_seq,
                 docId, doc, lines, balanceMap, timestamp, clock, upsertIdx>>

\* The delete answers with an error: the product stays.
DeleteProductFails(c) ==
  /\ pc[c] = "idle"
  /\ products # {}
  /\ Fault
  /\ Finish(c, ErrDelete)
  /\ writes' = [writes EXCEPT ![c] = 0]
  /\ UNCHANGED <<store, docId, doc, lines, balanceMap, timestamp, clock, upsertIdx>>

CatalogStep(c) == DeleteProduct(c) \/ DeleteProductFails(c)

\* One client creates and posts documents and deletes products.
NextCatalog == NextSolo \/ CatalogStep("c1")

SpecCatalog == Init /\ [][NextCatalog]_vars

\* ----------------------------------------------- two shipments, one balance
\* The store holds 10 of "A" in "W1", brought in by a posted receipt, and two
\* draft shipments of 6 of "A" each; the clients post them.
InitRace ==
  /\ products = Products
  /\ documents =
       [d \in {OpeningId, 1, 2} |->
         IF d = OpeningId THEN OpeningHeader("W1")
         ELSE [type |-> "shipment", status |-> "draft", warehouse_id |-> "W1"]]
  /\ document_lines =
       [d \in {OpeningId, 1, 2} |->
         <<[product_id |-> "A", qty |-> IF d = OpeningId THEN 10 ELSE 6]>>]
  /\ inventory_balances = [k \in {<<"A", "W1">>} |-> 10]
  /\ created_at = <<0>>
  /\ updated_at = [k \in {<<"A", "W1">>} |-> 0]
  /\ posted_at = [d \in {OpeningId} |-> 0]
  /\ doc_seq = 2
  /\ inventory_ledger =
       <<[product_id |-> "A", warehouse_id |-> "W1", doc_id |-> OpeningId,
          doc_type |-> "receipt", delta |-> 10]>>
  /\ Idle

NextRace == \E c \in Clients : PostStep(c)

SpecRace == InitRace /\ [][NextRace]_vars

\* ------------------------------------------------ two receipts, one balance
\* The store holds 5 of "A" in "W1", brought in by a posted receipt, and two
\* draft receipts of "A" into "W1", of 2 and of 3; the clients post them.
InitReceipts ==
  /\ products = Products
  /\ documents =
       [d \in {OpeningId, 1, 2} |->
         [type |-> "receipt",
          status |-> IF d = OpeningId THEN "posted" ELSE "draft",
          warehouse_id |-> "W1"]]
  /\ document_lines =
       [d \in {OpeningId, 1, 2} |->
         <<[product_id |-> "A", qty |-> IF d = OpeningId THEN 5 ELSE d + 1]>>]
  /\ inventory_balances = [k \in {<<"A", "W1">>} |-> 5]
  /\ created_at = <<0>>
  /\ updated_at = [k \in {<<"A", "W1">>} |-> 0]
  /\ posted_at = [d \in {OpeningId} |-> 0]
  /\ doc_seq = 2
  /\ inventory_ledger =
       <<[product_id |-> "A", warehouse_id |-> "W1", doc_id |-> OpeningId,
          doc_type |-> "receipt", delta |-> 5]>>
  /\ Idle

SpecReceipts == InitReceipts /\ [][NextRace]_vars

\* ---------------------------------------------------------- deleteDocument
\* delete from document_lines where document_id = id
DeleteLines(c) ==
  /\ pc[c] = "idle"
  /\ \E id \in DOMAIN documents :
       /\ docId' = [docId EXCEPT ![c] = id]
       /\ document_lines' = [document_lines EXCEPT ![id] = <<>>]
  /\ pc' = [pc EXCEPT ![c] = "delete_document"]
  /\ writes' = [writes EXCEPT ![c] = 1]
  /\ NoFault
  /\ UNCHANGED <<products, documents, inventory_balances, inventory_ledger,
                 created_at, updated_at, posted_at, doc_seq,
                 doc, lines, balanceMap, timestamp, clock, upsertIdx, ret>>

\* The delete of the lines fails; its result is not looked at.
DeleteLinesFails(c) ==
  /\ pc[c] = "idle"
  /\ \E id \in DOMAIN documents : docId' = [docId EXCEPT ![c] = id]
  /\ pc' = [pc EXCEPT ![c] = "delete_document"]
  /\ writes' = [writes EXCEPT ![c] = 0]
  /\ Fault
  /\ UNCHANGED <<store, doc, lines, balanceMap, timestamp, clock, upsertIdx, ret>>

\* a delete that takes the ledger entries and the balances of the document's
\* products along with the document
DeleteDocument_cascades(c) ==
  /\ pc[c] = "delete_document"
  /\ NoFault
  /\ documents' = [d \in DOMAIN documents \ {docId[c]} |-> documents[d]]
  /\ document_lines' = [d \in DOMAIN document_lines \ {docId[c]} |-> document_lines[d]]
  /\ posted_at' = [d \in DOMAIN posted_at \ {docId[c]} |-> posted_at[d]]
  /\ inventory_ledger' = SelectSeq(inventory_ledger, LAMBDA e : e.doc_id # docId[c])
  /\ created_at' = [i \in 1..Len(inventory_ledger') |-> 0]
  /\ inventory_balances' =
       [k \in {kk \in DOMAIN inventory_balances :
                 \A i \in 1..Len(inventory_ledger) :
                   inventory_ledger[i].doc_id = docId[c] =>
                     kk[1] # inventory_ledger[i].product_id} |-> inventory_balances[k]]
  /\ writes' = [writes EXCEPT ![c] = writes[c] + 1]
  /\ Finish(c, Ok)
  /\ UNCHANGED <<products, updated_at, doc_seq,
                 docId, doc, lines, balanceMap, timestamp, clock, upsertIdx>>

\* delete from documents where id = id
DeleteDocument(c) ==
  /\ pc[c] = "delete_document"
  /\ NoFault
  /\ documents' = [d \in DOMAIN documents \ {docId[c]} |-> documents[d]]
  /\ document_lines' = [d \in DOMAIN document_lines \ {docId[c]} |-> document_lines[d]]
  /\ posted_at' = [d \in DOMAIN posted_at \ {docId[c]} |-> posted_at[d]]
  /\ writes' = [writes EXCEPT ![c] = writes[c] + 1]
  /\ Finish(c, Ok)
  /\ UNCHANGED <<products, inventory_balances, inventory_ledger,
                 created_at, updated_at, doc_seq,
                 docId, doc, lines, balanceMap, timestamp, clock, upsertIdx>>

\* The delete of the document fails: return { error }.
DeleteDocumentFails(c) ==
  /\ pc[c] = "delete_document"
  /\ Fault
  /\ Finish(c, ErrDelete)
  /\ UNCHANGED <<store, docId, doc, lines, balanceMap, timestamp, clock, upsertIdx, writes>>

DeleteStep(c) ==
  \/ DeleteLines(c)
  \/ DeleteLinesFails(c)
  \/ DeleteDocument(c)
  \/ DeleteDocumentFails(c)

\* The clients post and delete the documents of the store of InitRace.
NextDelete == \E c \in Clients : PostStep(c) \/ DeleteStep(c)

SpecDelete == InitRace /\ [][NextDelete]_vars

\* ================================================================== claims

Quiescent == \A c \in Clients : pc[c] \in {"idle", "done"}

RECURSIVE SumDeltas(_, _, _)
SumDeltas(entries, p, w) ==
  IF entries = <<>> THEN 0
  ELSE (IF Head(entries).product_id = p /\ Head(entries).warehouse_id = w
        THEN Head(entries).delta ELSE 0) + SumDeltas(Tail(entries), p, w)

EntriesOf(d) == SelectSeq(inventory_ledger, LAMBDA e : e.doc_id = d)

\* C1: whenever no call is in progress and no store request has failed, the
\* stored on_hand of every (product, warehouse), an absent row counting as 0,
\* equals the sum of the deltas of the ledger entries of that pair.
C1_BalanceEqualsLedgerSum ==
  (Quiescent /\ faults = 0) =>
    \A p \in Products, w \in Warehouses :
      OnHand(p, w) = SumDeltas(inventory_ledger, p, w)

\* C2: of the two shipments of 6 against the balance of 10, at most one is ever
\* posted: in no interleaving do both postings succeed.
C2_AtMostOneShipmentPosts ==
  ~(documents[1].status = "posted" /\ documents[2].status = "posted")

\* the step is one of client c
Moves(c) == pc'[c] # pc[c] \/ upsertIdx'[c] # upsertIdx[c]

\* C3: a call of postDocument that finds the document already posted changes
\* nothing in the store (no ledger insert, no balance upsert, no document
\* update) and ends with the already-posted error; only when the store fails
\* the read of the lines does it end with the error of that read instead.
C3_SecondPostWritesNothing ==
  [][\A c \in Clients :
       (doc[c].status = "posted" /\ Moves(c)) =>
         /\ store' = store
         /\ \/ /\ pc[c] = "get_lines" /\ pc'[c] = "done"
               /\ ret'[c] \in {ErrAlreadyPosted, ErrNotFound}
               /\ ret'[c] = ErrNotFound => faults' > faults
            \/ pc[c] = "done" /\ pc'[c] = "idle"]_vars

\* C3 happens: a document created and posted here is posted again and the call
\* ends with the already-posted error, one set of ledger entries in the ledger.
C3_Witness ==
  \E c \in Clients :
    /\ pc[c] = "done" /\ ret[c] = ErrAlreadyPosted
    /\ docId[c] \in DocIds
    /\ Len(EntriesOf(docId[c])) = Len(document_lines[docId[c]])
    /\ faults = 0

\* C4: without any storage error, the lines of a document are applied to the
\* ledger at most once: the ledger never holds more entries of a document than
\* the document has lines.
C4_LinesAppliedAtMostOnce ==
  faults = 0 =>
    \A d \in DOMAIN documents :
      Len(EntriesOf(d)) <= Len(PostableLines(document_lines[d]))

\* the balance a posting read for line i of its document (absent counting 0)
ReadQty(c, i) == CurrentQty(balanceMap[c], lines[c][i].product_id)

\* C5: a posting that ends with a validation error (already posted, no lines,
\* insufficient stock on any line) has changed nothing in the store: the step
\* that rejects it leaves the store as it is, no step of the call before it
\* has written, and a shipment writes only when every one of its lines is
\* covered by the balance read for it.
C5_FailedValidationWritesNothing ==
  [][/\ store' # store => \E c \in Clients : writes'[c] = writes[c] + 1
     /\ \A c \in Clients :
          /\ (pc'[c] = "done" /\ ret'[c] \in ValidationErrors) =>
               writes'[c] = 0 /\ (Moves(c) => store' = store)
          /\ (doc[c].type = "shipment" /\ writes'[c] > 0) =>
               \A i \in 1..Len(lines[c]) : lines[c][i].qty <= ReadQty(c, i)]_vars

\* C5 happens: a two-line shipment whose first line is covered and whose second
\* line is not was rejected; the document is draft and has no ledger entry.
C5_Witness ==
  \E c \in Clients :
    /\ pc[c] = "done" /\ ret[c] = ErrInsufficient
    /\ Len(lines[c]) = 2
    /\ lines[c][1].qty > 0 /\ lines[c][1].qty <= ReadQty(c, 1)
    /\ lines[c][2].qty > ReadQty(c, 2)
    /\ documents[docId[c]].status = "draft"
    /\ EntriesOf(docId[c]) = <<>>
    /\ OnHand(lines[c][1].product_id, doc[c].warehouse_id) = ReadQty(c, 1)

\* C6: a posting that ends with a storage error (ledger insert, balance upsert
\* or status update failed) has written nothing to the store.
C6_FailedPostingLeavesNoTrace ==
  \A c \in Clients :
    (pc[c] = "done" /\ ret[c] \in {ErrLedger, ErrBalance, ErrStatus}) => writes[c] = 0

\* C7 as claimed: every stored on_hand is non-negative.
C7_NonNegative ==
  \A k \in DOMAIN inventory_balances : inventory_balances[k] >= 0

NoNegativeAdjustment ==
  \A i \in 1..Len(inventory_ledger) :
    inventory_ledger[i].doc_type = "adjustment" => inventory_ledger[i].delta >= 0

\* C7 as amended: as long as no adjustment with a negative quantity has been
\* recorded, every stored on_hand is non-negative, whatever receipts, shipments
\* and counts (with the non-negative quantities the form lets through) have
\* been posted, also concurrently and with storage errors.
C7_NonNegativeWithoutWriteOff == NoNegativeAdjustment => C7_NonNegative

\* C7 happens: a shipment took stock out down to 0 and no write-off was posted.
C7_Witness ==
  /\ NoNegativeAdjustment
  /\ \E i \in 1..Len(inventory_ledger) :
       /\ inventory_ledger[i].doc_type = "shipment"
       /\ inventory_ledger[i].delta < 0
       /\ <<inventory_ledger[i].product_id, inventory_ledger[i].warehouse_id>>
            \in DOMAIN inventory_balances
       /\ OnHand(inventory_ledger[i].product_id, inventory_ledger[i].warehouse_id) = 0

\* The rule of one document type, step by step of a posting of client c:
\* D(q, b) is the ledger delta and NB(q, b) the new balance of a line of
\* quantity q against balance b.
LineRule(c, t, D(_, _), NB(_, _)) ==
  doc[c].type = t =>
    \* the balance read is the stored balance, unless the read failed
    /\ (pc[c] = "read_balances" /\ pc'[c] # "read_balances" /\ faults' = faults) =>
         \A i \in 1..Len(lines[c]) :
           CurrentQty(balanceMap'[c], lines[c][i].product_id)
             = OnHand(lines[c][i].product_id, doc[c].warehouse_id)
    \* the ledger insert appends one entry per line, with the delta of the rule
    /\ (pc[c] = "insert_ledger" /\ pc'[c] = "upsert_balance") =>
         /\ Len(inventory_ledger') = Len(inventory_ledger) + Len(lines[c])
         /\ SubSeq(inventory_ledger', 1, Len(inventory_ledger)) = inventory_ledger
         /\ \A i \in 1..Len(lines[c]) :
              inventory_ledger'[Len(inventory_ledger) + i] =
                [product_id |-> lines[c][i].product_id,
                 warehouse_id |-> doc[c].warehouse_id,
                 doc_id |-> docId[c],
                 doc_type |-> t,
                 delta |-> D(lines[c][i].qty, ReadQty(c, i))]
    \* each upsert leaves the balance of its line at the new balance of the rule
    /\ (pc[c] = "upsert_balance" /\ upsertIdx'[c] = upsertIdx[c] + 1) =>
         LET i == upsertIdx[c]
             k == <<lines[c][i].product_id, doc[c].warehouse_id>> IN
         /\ DOMAIN inventory_balances' = DOMAIN inventory_balances \cup {k}
         /\ inventory_balances'[k] = NB(lines[c][i].qty, ReadQty(c, i))
         /\ \A j \in DOMAIN inventory_balances \ {k} :
              inventory_balances'[j] = inventory_balances[j]

\* C8: a shipment line of quantity q against balance b: when every line has
\* b >= q the ledger delta is -q and the new balance b - q; when some line has
\* b < q the posting ends with the insufficient-stock error, nothing is written
\* to the ledger and no balance changes.
C8_Shipment ==
  [][\A c \in Clients :
       /\ LineRule(c, "shipment", LAMBDA q, b : 0 - q, LAMBDA q, b : b - q)
       /\ (doc[c].type = "shipment" /\ pc[c] = "read_balances"
           /\ pc'[c] # "read_balances") =>
            IF \E i \in 1..Len(lines[c]) :
                 CurrentQty(balanceMap'[c], lines[c][i].product_id) < lines[c][i].qty
            THEN /\ pc'[c] = "done" /\ ret'[c] = ErrInsufficient
                 /\ store' = store /\ writes'[c] = 0
            ELSE pc'[c] = "insert_ledger"]_vars

\* C8 happens: a shipment of q > 0 was posted against a balance b >= q and the
\* stored balance is b - q.
C8_Witness ==
  \E c \in Clients :
    /\ pc[c] = "done" /\ ret[c] = Ok /\ doc[c].type = "shipment"
    /\ Len(lines[c]) = 1 /\ lines[c][1].qty > 0
    /\ OnHand(lines[c][1].product_id, doc[c].warehouse_id)
         = ReadQty(c, 1) - lines[c][1].qty
    /\ inventory_ledger[Len(inventory_ledger)].delta = 0 - lines[c][1].qty

\* C9: a count line of quantity q against balance b records the delta q - b
\* and leaves the balance exactly q.
C9_Count ==
  [][\A c \in Clients :
       LineRule(c, "count", LAMBDA q, b : q - b, LAMBDA q, b : q)]_vars

\* C9 happens: a count of q was posted against a balance b > 0; the stored
\* balance is q, not b + q, and the delta recorded is q - b.
C9_Witness ==
  \E c \in Clients :
    /\ pc[c] = "done" /\ ret[c] = Ok /\ doc[c].type = "count"
    /\ Len(lines[c]) = 1 /\ ReadQty(c, 1) > 0
    /\ OnHand(lines[c][1].product_id, doc[c].warehouse_id) = lines[c][1].qty
    /\ inventory_ledger[Len(inventory_ledger)].delta = lines[c][1].qty - ReadQty(c, 1)
    /\ inventory_ledger[Len(inventory_ledger)].doc_id = docId[c]

\* C10: a receipt line of quantity q against balance b records exactly one
\* ledger entry, with delta +q, and leaves the balance b + q.
C10_Receipt ==
  [][\A c \in Clients :
       LineRule(c, "receipt", LAMBDA q, b : q, LAMBDA q, b : b + q)]_vars

\* C10 happens: a receipt of q > 0 was posted against a balance b > 0; the
\* stored balance is b + q and the one entry of the document has delta q.
C10_Witness ==
  \E c \in Clients :
    /\ pc[c] = "done" /\ ret[c] = Ok /\ doc[c].type = "receipt"
    /\ Len(lines[c]) = 1 /\ lines[c][1].qty > 0 /\ ReadQty(c, 1) > 0
    /\ OnHand(lines[c][1].product_id, doc[c].warehouse_id)
         = ReadQty(c, 1) + lines[c][1].qty
    /\ Len(EntriesOf(docId[c])) = 1
    /\ EntriesOf(docId[c])[1].delta = lines[c][1].qty

\* C11: an adjustment line of signed quantity q against balance b records the
\* ledger delta q and leaves the balance b + q; no adjustment is ever refused
\* for lack of stock: after the balances are read the posting always goes on
\* to the ledger insert.
C11_Adjustment ==
  [][\A c \in Clients :
       /\ LineRule(c, "adjustment", LAMBDA q, b : q, LAMBDA q, b : b + q)
       /\ (doc[c].type = "adjustment" /\ pc[c] = "read_balances"
           /\ pc'[c] # "read_balances") =>
            pc'[c] = "insert_ledger" /\ ret'[c] # ErrInsufficient]_vars

\* C11 happens: an adjustment of q < 0 was posted against a balance b < -q; the
\* stored balance is b + q, below zero, and the delta recorded is q.
C11_Witness ==
  \E c \in Clients :
    /\ pc[c] = "done" /\ ret[c] = Ok /\ doc[c].type = "adjustment"
    /\ Len(lines[c]) = 1 /\ lines[c][1].qty < 0
    /\ ReadQty(c, 1) + lines[c][1].qty < 0
    /\ OnHand(lines[c][1].product_id, doc[c].warehouse_id)
         = ReadQty(c, 1) + lines[c][1].qty
    /\ Len(EntriesOf(docId[c])) = 1
    /\ EntriesOf(docId[c])[1].delta = lines[c][1].qty

\* C12: a posting whose document has a line that does not resolve to an
\* existing product never succeeds: whenever a call of postDocument has ended
\* without an error, every line of the document it posted names an existing
\* product.
C12_UnknownProductRejected ==
  \A c \in Clients :
    (pc[c] = "done" /\ ret[c] = Ok /\ doc[c].status = "draft") =>
      LineProducts(lines[c]) \subseteq products

\* C13: a document with zero lines cannot be posted: a call of postDocument
\* that finds the draft it fetched to have no lines ends right there with the
\* no-lines error (or with the error of the read, when the store failed it),
\* having written nothing; and no step ever leaves a posted document without
\* lines.
C13_EmptyDocumentNotPosted ==
  [][/\ \A c \in Clients :
          (pc[c] = "get_lines" /\ Moves(c) /\ doc[c].status = "draft"
           /\ document_lines[docId[c]] = <<>>) =>
            /\ pc'[c] = "done"
            /\ ret'[c] \in {ErrNoLines, ErrNotFound}
            /\ ret'[c] = ErrNotFound => faults' > faults
            /\ store' = store /\ writes'[c] = 0
     /\ \A d \in DOMAIN documents' :
          documents'[d].status = "posted" => document_lines'[d] # <<>>]_vars

\* C13 happens: postDocument on a draft created without lines ended with the
\* no-lines error; the document is still a draft without ledger entries.
C13_Witness ==
  \E c \in Clients :
    /\ pc[c] = "done" /\ ret[c] = ErrNoLines
    /\ docId[c] \in DocIds
    /\ document_lines[docId[c]] = <<>>
    /\ documents[docId[c]].status = "draft"
    /\ EntriesOf(docId[c]) = <<>>
    /\ writes[c] = 0

\* C14: the status of a document only ever moves from draft to posted: no step
\* of createDocument, of updateDocument called by the form or of postDocument
\* takes a posted document back to draft (or away).
C14_PostedStaysPosted ==
  [][\A d \in DOMAIN documents :
       documents[d].status = "posted" =>
         d \in DOMAIN documents' /\ documents'[d].status = "posted"]_vars

\* C14 happens: a call of postDocument found the document posted, in warehouse
\* W1; since then updateDocument has written its header (now W2), and the
\* document is still posted.
C14_Witness ==
  \E c \in Clients, d \in DocIds :
    /\ docId[c] = d /\ doc[c].status = "posted" /\ doc[c].warehouse_id = "W1"
    /\ documents[d].status = "posted" /\ documents[d].warehouse_id = "W2"

\* C15: once a document is posted, no step changes its lines, its type or its
\* warehouse.
C15_PostedHeaderAndLinesFrozen ==
  [][\A d \in DOMAIN documents :
       documents[d].status = "posted" =>
         /\ d \in DOMAIN documents'
         /\ documents'[d].type = documents[d].type
         /\ documents'[d].warehouse_id = documents[d].warehouse_id
         /\ document_lines'[d] = document_lines[d]]_vars

\* C16: a posted document is never deleted: no step removes a posted document
\* or any of its lines (so the document every ledger entry names exists).
C16_PostedNeverDeleted ==
  [][\A d \in DOMAIN documents :
       documents[d].status = "posted" =>
         d \in DOMAIN documents' /\ document_lines'[d] = document_lines[d]]_vars

\* C17: no update of a balance is lost: once the two receipts (of 2 and of 3,
\* against the balance of 5) are both posted, no call is in progress and no
\* store request has failed, the balance holds both deltas: 5 + 2 + 3.
C17_NoLostUpdate ==
  (/\ documents[1].status = "posted" /\ documents[2].status = "posted"
   /\ Quiescent /\ faults = 0) =>
    OnHand("A", "W1") = 5 + 2 + 3

\* C18: a posting that failed can be tried again from scratch: whenever a call
\* of postDocument on a document ends without an error, whatever failed
\* attempts on it came before, the ledger holds exactly one entry per line of
\* the document.
C18_RetryAppliesOnce ==
  \A c \in Clients :
    (pc[c] = "done" /\ ret[c] = Ok /\ doc[c].status = "draft") =>
      Len(EntriesOf(docId[c])) = Len(lines[c])

\* C19: a storage failure while the current balances are read aborts the
\* posting: the step at which the read fails ends the call with an error and
\* leaves the store as it is; the posting does not go on with balances it
\* could not read.
C19_ReadFailureAborts ==
  [][\A c \in Clients :
       (pc[c] = "read_balances" /\ Moves(c) /\ faults' > faults) =>
         pc'[c] = "done" /\ ret'[c] # Ok /\ store' = store]_vars

\* C20: nothing of a posting is visible before its commit completes: as long
\* as no store request has failed, every entry of the ledger belongs to a
\* document whose status is posted.
C20_LedgerOnlyOfPosted ==
  faults = 0 =>
    \A i \in 1..Len(inventory_ledger) :
      /\ inventory_ledger[i].doc_id \in DOMAIN documents
      /\ documents[inventory_ledger[i].doc_id].status = "posted"

\* C21: as long as no store request has failed, the ledger holds, for every
\* posted document, exactly one entry per line of the document: as many
\* entries with its doc_id as it has lines, the i-th with its type and the
\* product of its i-th line.
C21_OneEntryPerLine ==
  faults = 0 =>
    \A d \in DOMAIN documents :
      documents[d].status = "posted" =>
        /\ Len(EntriesOf(d)) = Len(document_lines[d])
        /\ \A i \in 1..Len(document_lines[d]) :
             /\ EntriesOf(d)[i].doc_type = documents[d].type
             /\ EntriesOf(d)[i].product_id = document_lines[d][i].product_id

\* ------------------------------------------------------------------- time
\* Time passes between the steps of the calls: a later new Date() is later.
Tick ==
  /\ clock < MaxClock
  /\ clock' = clock + 1
  /\ UNCHANGED <<store, pc, docId, doc, lines, balanceMap, upsertIdx, ret,
                 writes, faults, timestamp>>

NextClock == NextRace \/ Tick

SpecClock == InitRace /\ [][NextClock]_vars

\* C22: as long as no store request has failed, a draft document has no
\* posted_at, a posted_at once written is never written again with another
\* value, every ledger entry of a posted document carries the posted_at of
\* its document as created_at, and a balance whose updated_at is written
\* gets the timestamp of the posting that upserts it.
C22_OneTimestampWrittenOnce ==
  [][faults' = 0 =>
       /\ \A d \in DOMAIN documents' :
            documents'[d].status = "draft" => d \notin DOMAIN posted_at'
       /\ \A d \in DOMAIN posted_at \cap DOMAIN posted_at' :
            posted_at'[d] = posted_at[d]
       /\ \A d \in DOMAIN posted_at' :
            \A i \in 1..Len(inventory_ledger') :
              inventory_ledger'[i].doc_id = d => created_at'[i] = posted_at'[d]
       /\ \A k \in DOMAIN updated_at' :
            (k \notin DOMAIN updated_at \/ updated_at'[k] # updated_at[k]) =>
              \E c \in Clients :
                pc[c] = "upsert_balance" /\ updated_at'[k] = timestamp[c]
    ]_vars

\* ------------------------------------------- all the calls of the data layer
\* One client creates, edits, posts and deletes documents, one call after the
\* other.
NextCrud == NextSolo \/ FormStep("c1") \/ DeleteStep("c1")

SpecCrud == Init /\ [][NextCrud]_vars

\* C23: every step of createDocument, updateDocument, postDocument and
\* deleteDocument leaves the ledger entries there are as they are, in their
\* place: the ledger after the step begins with the ledger before it.
C23_LedgerAppendOnly ==
  [][/\ Len(inventory_ledger') >= Len(inventory_ledger)
     /\ SubSeq(inventory_ledger', 1, Len(inventory_ledger)) = inventory_ledger
     /\ SubSeq(created_at', 1, Len(created_at)) = created_at]_vars

\* a posted document was deleted and the ledger still has its entries, after
\* the opening stock's
C23_Witness ==
  /\ doc_seq = 1
  /\ 1 \notin DOMAIN documents
  /\ \E i \in 2..Len(inventory_ledger) :
       inventory_ledger[i].doc_id = 1 /\ inventory_ledger[i - 1].doc_id = OpeningId

\* the steps of postDocument that write to the ledger and to the balances
PostingWrites(c) == pc[c] \in {"insert_ledger", "upsert_balance"}

\* C24: a step that is not the ledger insert or a balance upsert of
\* postDocument (so every step of createDocument, of updateDocument and the
\* form's getDocument, and of deleteDocument) leaves every inventory balance
\* and every ledger entry unchanged.
C24_BalancesMutatedOnlyByPosting ==
  [][~PostingWrites("c1") =>
       /\ inventory_balances' = inventory_balances
       /\ inventory_ledger' = inventory_ledger]_vars

\* deleteDocument has deleted the lines and the document it was given, and
\* the ledger has entries and stock is on hand
C24_Witness ==
  /\ pc["c1"] = "done"
  /\ ret["c1"] = Ok
  /\ doc_seq = 1
  /\ 1 \notin DOMAIN documents
  /\ writes["c1"] = 2
  /\ inventory_ledger # <<>>
  /\ \E k \in DOMAIN inventory_balances : inventory_balances[k] > 0

\* C25: the balances are one record per (product, warehouse) pair, made when
\* they are first needed: a pair without a record is read as 0; a record
\* appears only in a balance upsert of a posting that read the pair as 0, and
\* it holds 0 plus the delta of the line (q for a receipt of q); an upsert on a
\* pair that has a record writes the new balance into that record and adds no
\* record; no step takes a record away.
C25_OneRecordPerPairCreatedLazily ==
  [][\A c \in Clients :
       /\ DOMAIN inventory_balances \subseteq DOMAIN inventory_balances'
       /\ (pc[c] = "read_balances" /\ pc'[c] # "read_balances" /\ faults' = faults) =>
            \A i \in 1..Len(lines[c]) :
              <<lines[c][i].product_id, doc[c].warehouse_id>>
                  \notin DOMAIN inventory_balances =>
                CurrentQty(balanceMap'[c], lines[c][i].product_id) = 0
       /\ (pc[c] = "upsert_balance" /\ upsertIdx'[c] = upsertIdx[c] + 1) =>
            LET i == upsertIdx[c]
                k == <<lines[c][i].product_id, doc[c].warehouse_id>> IN
            IF k \in DOMAIN inventory_balances
            THEN /\ DOMAIN inventory_balances' = DOMAIN inventory_balances
                 /\ inventory_balances'[k] =
                      ReadQty(c, i) + Delta(doc[c].type, lines[c][i].qty, ReadQty(c, i))
            ELSE /\ DOMAIN inventory_balances' = DOMAIN inventory_balances \cup {k}
                 /\ ReadQty(c, i) = 0
                 /\ inventory_balances'[k] = Delta(doc[c].type, lines[c][i].qty, 0)
                 /\ doc[c].type = "receipt" => inventory_balances'[k] = lines[c][i].qty
       /\ (pc[c] # "upsert_balance" \/ upsertIdx'[c] = upsertIdx[c]) =>
            (pc'[c] # pc[c] => DOMAIN inventory_balances' = DOMAIN inventory_balances)
    ]_vars

\* a receipt of 1 was posted for a product that had no record in the
\* warehouse, and the record now holds 1
C25_Witness ==
  \E c \in Clients :
    /\ pc[c] = "done" /\ ret[c] = Ok /\ writes[c] > 0
    /\ doc[c] # NoHeader
    /\ doc[c].type = "receipt"
    /\ Len(lines[c]) = 1
    /\ lines[c][1].qty = 1
    /\ lines[c][1].product_id \notin DOMAIN balanceMap[c]
    /\ <<lines[c][1].product_id, doc[c].warehouse_id>> \in DOMAIN inventory_balances
    /\ inventory_balances[<<lines[c][1].product_id, doc[c].warehouse_id>>] = 1

\* C26: when a posting has ended well and no store request has failed, the
\* stored balance of every product of the document is the balance the posting
\* read plus the sum of the deltas of the ledger entries the posting wrote for
\* that product; so is it when several lines name the same product.
C26_DuplicateLinesAccumulate ==
  \A c \in Clients :
    (pc[c] = "done" /\ ret[c] = Ok /\ doc[c] # NoHeader /\ faults = 0) =>
      \A i \in 1..Len(lines[c]) :
        OnHand(lines[c][i].product_id, doc[c].warehouse_id) =
          ReadQty(c, i)
            + SumDeltas(EntriesOf(docId[c]), lines[c][i].product_id,
                        doc[c].warehouse_id)

RECURSIVE SumQty(_, _)
\* the quantities the lines ls have for product p, together
SumQty(ls, p) ==
  IF ls = <<>> THEN 0
  ELSE (IF Head(ls).product_id = p THEN Head(ls).qty ELSE 0) + SumQty(Tail(ls), p)

\* C27: when the posting of a shipment has ended well and no store request
\* has failed, the lines of the document for any one product together ship no
\* more than the balance the posting read for that product.
C27_ShipmentLinesTogetherCovered ==
  \A c \in Clients :
    (pc[c] = "done" /\ ret[c] = Ok /\ doc[c] # NoHeader /\ faults = 0
     /\ doc[c].type = "shipment") =>
      \A i \in 1..Len(lines[c]) :
        SumQty(lines[c], lines[c][i].product_id) <= ReadQty(c, i)

\* the steps of a postDocument call after it has fetched the header
InPosting(c) ==
  pc[c] \in {"get_lines", "read_balances", "insert_ledger", "upsert_balance",
             "update_status"}

\* C28: a step of a posting leaves as they are the balance of every pair that
\* is not a product of the document's lines in the document's warehouse, every
\* other document, and the lines of all documents; a step that ends the
\* posting with a validation error (already posted, no lines, insufficient
\* stock) leaves the whole store as it is.
C28_PostingFrame ==
  [][\A c \in Clients :
       (InPosting(c) /\ (pc'[c] # pc[c] \/ upsertIdx'[c] # upsertIdx[c])) =>
         /\ \A k \in DOMAIN inventory_balances \cup DOMAIN inventory_balances' :
              (k[2] # doc[c].warehouse_id \/ k[1] \notin LineProducts(lines[c])) =>
                /\ k \in DOMAIN inventory_balances
                /\ k \in DOMAIN inventory_balances'
                /\ inventory_balances'[k] = inventory_balances[k]
         /\ DOMAIN documents' = DOMAIN documents
         /\ \A d \in DOMAIN documents \ {docId[c]} : documents'[d] = documents[d]
         /\ document_lines' = document_lines
         /\ (pc'[c] = "done" /\ ret'[c] \in ValidationErrors) => store' = store
    ]_vars

\* a document with lines for product A only was posted in warehouse W2, and
\* the balance of B in W1 and of A in W1 are the opening stock's
C28_Witness ==
  \E c \in Clients :
    /\ pc[c] = "done" /\ ret[c] = Ok /\ upsertIdx[c] > 0
    /\ doc[c] # NoHeader
    /\ doc[c].warehouse_id = "W2"
    /\ LineProducts(lines[c]) = {"A"}
    /\ <<"A", "W2">> \in DOMAIN inventory_balances
    /\ <<"A", "W1">> \in DOMAIN inventory_balances
    /\ <<"B", "W1">> \in DOMAIN inventory_balances
    /\ inventory_balances[<<"A", "W2">>] # inventory_balances[<<"A", "W1">>]
    /\ 0 \in DOMAIN documents /\ documents[0].status = "posted"

\* ------------------------------------------- the in-memory prototype
\* StoreProvider.postDocument: the document is found and is not posted
\* (there is no other test)
ProtoAccepts(hdr) == hdr.status # "posted"

\* the delta of one line, against the on-hand quantity of its record
ProtoDelta(t, qty, currentOnHand) ==
  CASE t = "receipt" -> qty
    [] t = "shipment" -> 0 - qty
    [] t = "adjustment" -> qty
    [] t = "count" -> qty - currentOnHand
    [] OTHER -> 0

RECURSIVE ProtoPost(_, _, _)
\* doc.lines.forEach over newInventory: every line finds its record (or makes
\* one with onHand 0), computes its delta against the record as the lines
\* before it left it, and writes the new on-hand quantity into the record.
\* Gives the inventory after the lines and the deltas of the ledger entries.
ProtoPost(hdr, ls, inv) ==
  IF ls = <<>> THEN [inventory |-> inv, deltas |-> <<>>]
  ELSE LET p == Head(ls).product_id
           currentOnHand == CurrentQty(inv, p)
           delta == ProtoDelta(hdr.type, Head(ls).qty, currentOnHand)
           newInventory == [q \in DOMAIN inv \cup {p} |->
                             IF q = p THEN currentOnHand + delta ELSE inv[q]]
           rest == ProtoPost(hdr, Tail(ls), newInventory)
       IN [inventory |-> rest.inventory, deltas |-> <<delta>> \o rest.deltas]

\* C29: when a postDocument call of the data layer has ended and no store
\* request has failed, the prototype's postDocument, given the same document,
\* lines and balances, accepts the document exactly when the call has ended
\* well, and then gives the same ledger delta for every line and the same
\* final balance for every product of the document.
C29_PrototypeAgrees ==
  \A c \in Clients :
    (pc[c] = "done" /\ doc[c] # NoHeader /\ faults = 0) =>
      LET proto == ProtoPost(doc[c], lines[c], balanceMap[c]) IN
      /\ (ret[c] = Ok) <=> ProtoAccepts(doc[c])
      /\ ret[c] = Ok =>
           /\ Len(EntriesOf(docId[c])) = Len(proto.deltas)
           /\ \A i \in 1..Len(proto.deltas) :
                EntriesOf(docId[c])[i].delta = proto.deltas[i]
           /\ \A i \in 1..Len(lines[c]) :
                OnHand(lines[c][i].product_id, doc[c].warehouse_id) =
                  CurrentQty(proto.inventory, lines[c][i].product_id)

\* ------------------------------------------------------------- progress
\* A call that has started takes its next step: every request to the store
\* is answered, with a result or with an error, and the call goes on from its
\* await.
Continue(c) == pc[c] # "idle" /\ PostStep(c)

SpecLive == InitRace /\ [][NextRace]_vars /\ \A c \in Clients : WF_vars(Continue(c))

\* C30: every postDocument call that has started comes to its end; and a call
\* that has passed the tests on its document (a draft with lines, stock
\* sufficient for every line) leads to the document being posted, unless a
\* store request fails; whatever the other client's postings do meanwhile.
C30_PostingTerminatesAndPosts ==
  \A c \in Clients :
    /\ (pc[c] # "idle") ~> (pc[c] = "done")
    /\ \A d \in {1, 2} :
         (pc[c] = "insert_ledger" /\ docId[c] = d /\ faults = 0)
           ~> (documents[d].status = "posted" \/ faults > 0)

\* a posting has ended well and its document is posted, while the other
\* client is in the middle of a posting
C30_Witness ==
  /\ faults = 0
  /\ pc["c1"] = "done" /\ ret["c1"] = Ok
  /\ documents[docId["c1"]].status = "posted"
  /\ InPosting("c2")

====
